---- MODULE Spec2Model ----
(***************************************************************************)
(* Model of lib/mod_analytics.py: gcd, ks_signif, lift, ks and roc.        *)
(*                                                                         *)
(* Number representation.                                                  *)
(*  - Python ints are TLA+ integers.                                       *)
(*  - A quotient of two counts (an ECDF value, a raw lift, a rate) is kept *)
(*    exactly as a pair <<num, den>>.  den = 0 stands for the non-finite   *)
(*    value numpy produces for a division by zero (nan when num = 0, an    *)
(*    infinity otherwise): numpy scalars warn and do not raise.            *)
(*  - The value num / sqrt(rad) of the KS statistic is kept as the record  *)
(*    [nan, sgn, sqn, sqd], the real sgn * sqrt(sqn / sqd).                *)
(*  - math.exp and the sums built from it are fixed-point numbers with     *)
(*    Scale units per 1.0, every product rounded to the nearest unit.      *)
(***************************************************************************)
EXTENDS Integers, Sequences, FiniteSets, TLC

VARIABLES
    \* gcd(a, b): the arguments of the call, the loop's locals, the result
    a0, b0, a, b, gcd_pc, gcd_ret,
    \* ks_signif(x): the last call and the one before it
    sig_x, sig_ret, sig_prev_x, sig_prev_ret,
    \* lift(x, y, buy_threshold, sell_threshold): the arguments, where the caller
    \* is, what the last call computed and what the call before it computed
    lift_x, lift_y, buy_threshold, sell_threshold, lift_pc, lift_out, lift_prev,
    \* ks(x, y): the samples, where the caller is, what the call computed
    ks_x, ks_y, ks_pc, ks_out,
    \* roc(x, y, theta): the arguments, where the caller is, what the call computed
    roc_x, roc_y, theta, roc_pc, roc_out

gcd_vars == <<a0, b0, a, b, gcd_pc, gcd_ret>>
sig_vars == <<sig_x, sig_ret, sig_prev_x, sig_prev_ret>>
lift_vars == <<lift_x, lift_y, buy_threshold, sell_threshold, lift_pc, lift_out, lift_prev>>
ks_vars == <<ks_x, ks_y, ks_pc, ks_out>>
roc_vars == <<roc_x, roc_y, theta, roc_pc, roc_out>>
vars == <<gcd_vars, sig_vars, lift_vars, ks_vars, roc_vars>>

\* ------------------------------------------------------------------ bounds
\* largest argument of gcd
MaxN == 12
\* fixed-point units per 1.0
Scale == 10000
\* arguments of ks_signif are the multiples k / Grid, -MaxK <= k <= MaxK
Grid == 4
MaxK == 16
\* lift: longest argument sequence, largest predictor value
MaxLen == 3
MaxPred == 2
\* ks: largest sample, largest sample value
MaxSample == 3
MaxObs == 1
\* roc: longest argument sequence, largest absolute value of an entry or of theta
MaxRocLen == 2
MaxRocVal == 2

\* ----------------------------------------------------------------- helpers
Abs(v) == IF v < 0 THEN -v ELSE v
Sgn(v) == IF v < 0 THEN -1 ELSE IF v > 0 THEN 1 ELSE 0
Max(u, v) == IF v > u THEN v ELSE u
\* u * v / Scale, rounded to the nearest unit (u, v >= 0)
MulFix(u, v) == (u * v + Scale \div 2) \div Scale

\* ------------------------------------------------------------------- gcd
\* the function as a whole: while b: a, b = b, a % b; return a
RECURSIVE gcd(_, _)
gcd(x, y) == IF y # 0 THEN gcd(y, x % y) ELSE x

GcdInit ==
    /\ a0 \in 0..MaxN
    /\ b0 \in 0..MaxN
    /\ a = a0
    /\ b = b0
    /\ gcd_pc = "loop"
    /\ gcd_ret = -1

\* one iteration of the while loop, the pair assigned one name after the other
GcdLoopSeq ==
    /\ gcd_pc = "loop"
    /\ b # 0
    /\ a' = b
    /\ b' = b % b
    /\ UNCHANGED <<a0, b0, gcd_pc, gcd_ret>>
    /\ UNCHANGED <<sig_vars, lift_vars, ks_vars, roc_vars>>

\* one iteration of the while loop: a, b = b, a % b
GcdLoop ==
    /\ gcd_pc = "loop"
    /\ b # 0
    /\ a' = b
    /\ b' = a % b
    /\ UNCHANGED <<a0, b0, gcd_pc, gcd_ret>>
    /\ UNCHANGED <<sig_vars, lift_vars, ks_vars, roc_vars>>

\* the loop's exit and the return
GcdReturn ==
    /\ gcd_pc = "loop"
    /\ b = 0
    /\ gcd_ret' = a
    /\ gcd_pc' = "done"
    /\ UNCHANGED <<a0, b0, a, b>>
    /\ UNCHANGED <<sig_vars, lift_vars, ks_vars, roc_vars>>

GcdNext == GcdLoop \/ GcdReturn

\* ------------------------------------------------------------- ks_signif
\* math.exp(-1), in units
EInv == (Scale * 1000) \div 2718

\* v * exp(-w) for a whole number w >= 0
RECURSIVE ExpWhole(_, _)
ExpWhole(v, w) ==
    IF w = 0 \/ v = 0 THEN v ELSE ExpWhole(MulFix(v, EInv), w - 1)

\* exp(-r/d) for 0 <= r < d by its Taylor series: the terms from the j-th on,
\* term being the absolute value of the j-th
RECURSIVE ExpFrac(_, _, _, _)
ExpFrac(term, j, r, d) ==
    IF term = 0 THEN 0
    ELSE (IF j % 2 = 0 THEN term ELSE -term)
         + ExpFrac((2 * term * r + d * (j + 1)) \div (2 * d * (j + 1)), j + 1, r, d)

\* math.exp(-(n / d)), n >= 0, d > 0
ExpNeg(n, d) == ExpWhole(ExpFrac(Scale, 0, n % d, d), n \div d)

\* the real k / Grid as an argument of ks_signif
GridReal(k) == [nan |-> FALSE, sgn |-> Sgn(k), sqn |-> k * k, sqd |-> Grid * Grid]

SeriesLo == -20
SeriesHi == 20

\* the term without its sign
SeriesTermAlt(i, x) == ExpNeg(2 * i * i * x.sqn, x.sqd)
\* math.pow(-1.0, i) * math.exp(-2.0 * i ** 2 * x ** 2)
SeriesTerm(i, x) ==
    (IF i % 2 = 0 THEN 1 ELSE -1) * ExpNeg(2 * i * i * x.sqn, x.sqd)

\* v after the iterations i, i + 1, ..., SeriesHi - 1 of the for loop
RECURSIVE SeriesSum(_, _)
SeriesSum(i, x) ==
    IF i >= SeriesHi THEN 0 ELSE SeriesTerm(i, x) + SeriesSum(i + 1, x)

\* x < 0.0 in place of x <= 0.0
SignifGuardStrict(x) == ~x.nan /\ x.sgn < 0
\* x <= 0.0; a nan compares false
SignifGuard(x) == ~x.nan /\ x.sgn <= 0

\* ks_signif(x): a fixed-point number, or nan
ks_signif(x) ==
    IF SignifGuard(x) THEN [nan |-> FALSE, v |-> 0]
    ELSE IF x.nan THEN [nan |-> TRUE, v |-> 0]
    ELSE [nan |-> FALSE, v |-> Scale - SeriesSum(SeriesLo, x)]

SigInit ==
    /\ sig_x = 0
    /\ sig_ret = ks_signif(GridReal(0))
    /\ sig_prev_x = 0
    /\ sig_prev_ret = ks_signif(GridReal(0))

\* a call ks_signif(k / Grid); the call before it is remembered
SigCall ==
    \E k \in -MaxK..MaxK :
        /\ sig_prev_x' = sig_x
        /\ sig_prev_ret' = sig_ret
        /\ sig_x' = k
        /\ sig_ret' = ks_signif(GridReal(k))
        /\ UNCHANGED <<gcd_vars, lift_vars, ks_vars, roc_vars>>

SigNext == SigCall


\* ------------------------------------------------------------------ lift
SeqsUpTo(S, n) == UNION {[1..k -> S] : k \in 0..n}
Reverse(s) == [i \in 1..Len(s) |-> s[Len(s) + 1 - i]]

\* numpy.column_stack((x, y)): the rows (x[i], y[i])
ColumnStack(x, y) == [i \in 1..Len(x) |-> <<x[i], y[i]>>]
Col0(data) == [i \in 1..Len(data) |-> data[i][1]]
Col1(data) == [i \in 1..Len(data) |-> data[i][2]]

\* the indices left as they come, unsorted
ArgSortsUnsorted(col) == {[i \in 1..Len(col) |-> i]}
\* col.argsort(): the index orders that put col in ascending order.  numpy's
\* default sort is not a stable one, so the order of equal keys is whichever
\* the build produces.
ArgSorts(col) ==
    {p \in [1..Len(col) -> 1..Len(col)] :
        /\ \A i, j \in 1..Len(col) : i < j => p[i] # p[j]
        /\ \A i \in 1..(Len(col) - 1) : col[p[i]] <= col[p[i + 1]]}

\* idx[::-1] of line 44
HighToLow(idx) == Reverse(idx)

\* data[idx]
Take(data, idx) == [i \in 1..Len(idx) |-> data[idx[i]]]

\* s.cumsum()
RECURSIVE SumTo(_, _)
SumTo(s, k) == IF k = 0 THEN 0 ELSE s[k] + SumTo(s, k - 1)
CumSum(s) == [k \in 1..Len(s) |-> SumTo(s, k)]

\* numpy.where(targets > buy_threshold, 1.0, 0.0)
WhereBuy(targets, thr) ==
    [i \in 1..Len(targets) |-> IF targets[i] > thr THEN 1 ELSE 0]
\* the targets walked in the buy order, not reversed
WhereSellKept(targets, thr) ==
    [i \in 1..Len(targets) |-> IF targets[i] < thr THEN -1 ELSE 0]
\* numpy.where(targets[::-1] < sell_threshold, -1.0, 0.0)
WhereSell(targets, thr) ==
    [i \in 1..Len(targets) |->
        IF Reverse(targets)[i] < thr THEN -1 ELSE 0]

\* numpy.floor(numpy.sqrt(n) + 0.5): the b with b - 1/2 <= sqrt(n) < b + 1/2
Bins(n) ==
    CHOOSE bb \in 1..n :
        (2 * bb - 1) * (2 * bb - 1) <= 4 * n /\ 4 * n < (2 * bb + 1) * (2 * bb + 1)

\* idx of line 65: floor(i / n * 100 + 0.5) for i = 1..n
Percent(n) == [i \in 1..n |-> (200 * i + n) \div (2 * n)]

\* rawLift of lines 68-71.  Position p holds the array's element i = p - 1:
\* 0.0 for i = 0, cum[i] / float(i) after it, cum[i] being position p of cum
RawLift(cum) ==
    [p \in 1..Len(cum) |-> IF p = 1 THEN <<0, 1>> ELSE <<cum[p], p - 1>>]

\* quotients <<num, den>>
RDiv(u, v) == <<u[1] * v[2], u[2] * v[1]>>
RMinusOne(u) == <<u[1] - u[2], u[2]>>
IsOne(u) == u[2] # 0 /\ u[1] = u[2]

\* the rows printed by the loops of lines 74 and 84: i = step - 1, 2 step - 1, ...
\* below n; each row is (idx[i], raw[i], 100 * ((raw[i] / mean) - 1) / idx[i], i)
Rows(raw, mean, step, n) ==
    [k \in 1..(n \div step) |->
        LET i == k * step - 1
            pct == Percent(n)[i + 1]
            rel == RMinusOne(RDiv(raw[i + 1], mean))
        IN  [pct |-> pct,
             raw |-> raw[i + 1],
             ratio |-> <<100 * rel[1], rel[2] * pct>>,
             i |-> i]]

\* cum -= numpy.array([mean] * n).cumsum(), lines 92-93
Normalized(cum, n) ==
    [p \in 1..n |-> <<cum[p] * n - cum[n] * p, n>>]

NoCurves ==
    [data |-> <<>>, lift_buy |-> <<>>, lift_sell |-> <<>>,
     meanLiftBuy |-> <<0, 0>>, meanLiftSell |-> <<0, 0>>,
     buy_rows |-> <<>>, sell_rows |-> <<>>,
     norm_buy |-> <<>>, norm_sell |-> <<>>]

NotCalled == [outcome |-> "none", value |-> "none"] @@ NoCurves

\* lift(x, y, bt, st) when argsort answers order.  Printing and plot_lift
\* draw the values kept here and change nothing.
LiftBody(x, y, bt, st, order) ==
    IF Len(x) # Len(y) THEN
        \* line 35: return 0
        [outcome |-> "return", value |-> "0"] @@ NoCurves
    ELSE IF Len(x) = 0 THEN
        \* line 53: lift_buy[-1] of an empty array
        [outcome |-> "raise", value |-> "IndexError"] @@ NoCurves
    ELSE
        LET n == Len(x)
            data == Take(ColumnStack(x, y), HighToLow(order))
            lift_buy == CumSum(WhereBuy(Col1(data), bt))
            lift_sell == CumSum(WhereSell(Col1(data), st))
            meanLiftBuy == <<lift_buy[n], n>>
            meanLiftSell == <<lift_sell[n], n>>
            step == n \div Bins(n)
        IN  [outcome |-> "return", value |-> "None",
             data |-> data,
             lift_buy |-> lift_buy,
             lift_sell |-> lift_sell,
             meanLiftBuy |-> meanLiftBuy,
             meanLiftSell |-> meanLiftSell,
             buy_rows |-> Rows(RawLift(lift_buy), meanLiftBuy, step, n),
             sell_rows |-> Rows(RawLift(lift_sell), meanLiftSell, step, n),
             norm_buy |-> Normalized(lift_buy, n),
             norm_sell |-> Normalized(lift_sell, n)]

Targets == {-1, 0, 1}
\* (buy_threshold, sell_threshold): the defaults, and both raised
Thresholds == {<<0, 0>>, <<1, 1>>}

LiftInit ==
    /\ lift_x \in SeqsUpTo(0..MaxPred, MaxLen)
    /\ lift_y \in SeqsUpTo(Targets, MaxLen)
    /\ \E thr \in Thresholds :
           buy_threshold = thr[1] /\ sell_threshold = thr[2]
    /\ lift_pc = "start"
    /\ lift_out = NotCalled
    /\ lift_prev = NotCalled

\* lift(x, y, buy_threshold, sell_threshold)
LiftCall ==
    /\ lift_pc = "start"
    /\ \E order \in ArgSorts(lift_x) :
           lift_out' = LiftBody(lift_x, lift_y, buy_threshold, sell_threshold, order)
    /\ lift_pc' = "once"
    /\ UNCHANGED <<lift_x, lift_y, buy_threshold, sell_threshold, lift_prev>>
    /\ UNCHANGED <<gcd_vars, sig_vars, ks_vars, roc_vars>>

\* the sorted pairs of the call fed to lift again, columns apart
LiftAgain ==
    /\ lift_pc = "once"
    /\ lift_out.value = "None"
    /\ \E order \in ArgSorts(Col0(lift_out.data)) :
           lift_out' = LiftBody(Col0(lift_out.data), Col1(lift_out.data),
                                buy_threshold, sell_threshold, order)
    /\ lift_prev' = lift_out
    /\ lift_pc' = "twice"
    /\ UNCHANGED <<lift_x, lift_y, buy_threshold, sell_threshold>>
    /\ UNCHANGED <<gcd_vars, sig_vars, ks_vars, roc_vars>>

LiftNext == LiftCall \/ LiftAgain

\* -------------------------------------------------------------------- ks
\* numpy.sort(Z): insertion of v into an ascending sequence, then the sort
RECURSIVE Insert(_, _)
Insert(s, v) ==
    IF s = <<>> THEN <<v>>
    ELSE IF v <= Head(s) THEN <<v>> \o s
    ELSE <<Head(s)>> \o Insert(Tail(s), v)
RECURSIVE SortAsc(_)
SortAsc(s) == IF s = <<>> THEN <<>> ELSE Insert(SortAsc(Tail(s)), Head(s))

\* the count with < in place of <=
RECURSIVE ECountStrict(_, _, _)
ECountStrict(s, z, k) ==
    IF k = 0 THEN 0
    ELSE ECountStrict(s, z, k - 1) + (IF s[k] < z THEN 1 ELSE 0)
\* the inner loops of lines 126-128 and 130-132: the j <= k with s[j] <= z
RECURSIVE ECount(_, _, _)
ECount(s, z, k) ==
    IF k = 0 THEN 0
    ELSE ECount(s, z, k - 1) + (IF s[k] <= z THEN 1 ELSE 0)

\* F[i] and G[i] after lines 129 and 133: count / float(size), nan for size 0
Ecdf(s, Z) == [i \in 1..Len(Z) |-> <<ECount(s, Z[i], Len(s)), Len(s)>>]

\* numpy.abs(F[i] - G[i])
AbsDiff(f, g) == <<Abs(f[1] * g[2] - g[1] * f[2]), f[2] * g[2]>>

\* u > v for quotients with denominators >= 0; false when either is nan
Greater(u, v) == u[2] # 0 /\ v[2] # 0 /\ u[1] * v[2] > v[1] * u[2]

\* J after the iterations 1..k of the loop of line 125: J = max(J, j_max)
\* keeps J unless j_max > J
RECURSIVE MaxDiff(_, _, _)
MaxDiff(F, G, k) ==
    IF k = 0 THEN <<0, 1>>
    ELSE LET J == MaxDiff(F, G, k - 1)
             j_max == AbsDiff(F[k], G[k])
         IN  IF Greater(j_max, J) THEN j_max ELSE J

\* u in lowest terms (u[2] > 0)
Lowest(u) == LET g == gcd(Abs(u[1]), u[2]) IN <<u[1] \div g, u[2] \div g>>

\* the real u / sqrt(rad) for a quotient u >= 0 and rad > 0
OverSqrt(u, rad) ==
    LET sq == Lowest(<<u[1] * u[1], u[2] * u[2] * rad>>)
    IN  [nan |-> FALSE, sgn |-> Sgn(u[1]), sqn |-> sq[1], sqd |-> sq[2]]

NanReal == [nan |-> TRUE, sgn |-> 0, sqn |-> 0, sqd |-> 1]

\* floor(q * 100^k + r * 100^k / d), 0 <= r < d
RECURSIVE ScaledDiv(_, _, _, _)
ScaledDiv(q, r, d, k) ==
    IF k = 0 THEN q
    ELSE ScaledDiv(q * 100 + (r * 100) \div d, (r * 100) % d, d, k - 1)

\* floor(sqrt(q)) between lo and hi
RECURSIVE ISqrt(_, _, _)
ISqrt(q, lo, hi) ==
    IF lo >= hi THEN lo
    ELSE LET mid == (lo + hi + 1) \div 2
         IN  IF mid * mid <= q THEN ISqrt(q, mid, hi) ELSE ISqrt(q, lo, mid - 1)

\* '{0:.4f}'.format(x) for a real x >= 0: x in ten-thousandths, rounded
Format4Real(x) ==
    IF x.nan THEN [nan |-> TRUE, v |-> 0]
    ELSE LET q == ScaledDiv((4 * x.sqn) \div x.sqd, (4 * x.sqn) % x.sqd, x.sqd, 4)
         IN  [nan |-> FALSE, v |-> (ISqrt(q, 0, 40000) + 1) \div 2]

\* '{1:.4f}'.format(s) for a fixed-point s
Format4Fix(s) ==
    IF s.nan THEN s
    ELSE [nan |-> FALSE, v |-> (s.v * 10000 + Scale \div 2) \div Scale]

KsNotCalled ==
    [outcome |-> "none", error |-> "none", Z |-> <<>>, F |-> <<>>, G |-> <<>>,
     J_max |-> <<0, 1>>, J |-> <<0, 1>>, J_star |-> NanReal,
     signif |-> [nan |-> TRUE, v |-> 0],
     text |-> [statistic |-> [nan |-> TRUE, v |-> 0],
               significance |-> [nan |-> TRUE, v |-> 0]]]

\* ks(x, y).  The plot draws F and G and changes nothing.
KsBody(x, y) ==
    LET m == Len(x)
        n == Len(y)
        d == gcd(m, n)
        Z == SortAsc(x \o y)
        F == Ecdf(x, Z)
        G == Ecdf(y, Z)
        J_max == MaxDiff(F, G, Len(Z))
        \* line 136: J *= m * n / d
        J == <<J_max[1] * m * n, J_max[2] * d>>
        rad == m * n * (m + n)
        \* line 138: a division by numpy.sqrt(0) is a numpy division, 0.0 / 0.0
        J_star == IF rad = 0 THEN NanReal
                  ELSE OverSqrt(<<J[1] * d, J[2]>>, rad)
        signif == ks_signif(J_star)
    IN  IF d = 0 THEN
            \* line 136 with m = n = 0: the int 0 divided by the float 0.0
            [KsNotCalled EXCEPT !.outcome = "raise", !.error = "ZeroDivisionError",
                                !.Z = Z, !.F = F, !.G = G, !.J_max = J_max, !.J = J_max]
        ELSE
            [outcome |-> "return", error |-> "none", Z |-> Z, F |-> F, G |-> G,
             J_max |-> J_max, J |-> J, J_star |-> J_star, signif |-> signif,
             text |-> [statistic |-> Format4Real(J_star),
                       significance |-> Format4Fix(signif)]]

KsInit ==
    /\ ks_x \in SeqsUpTo(0..MaxObs, MaxSample)
    /\ ks_y \in SeqsUpTo(0..MaxObs, MaxSample)
    /\ ks_pc = "start"
    /\ ks_out = KsNotCalled

KsCall ==
    /\ ks_pc = "start"
    /\ ks_out' = KsBody(ks_x, ks_y)
    /\ ks_pc' = "done"
    /\ UNCHANGED <<ks_x, ks_y>>
    /\ UNCHANGED <<gcd_vars, sig_vars, lift_vars, roc_vars>>

KsNext == KsCall

\* ------------------------------------------------------------------- roc
\* numpy.where(cond, 1.0, 0.0).sum() and the sum of a logical_and: the number
\* of the first k positions whose flag is set
RECURSIVE CountTo(_, _)
CountTo(flags, k) ==
    IF k = 0 THEN 0 ELSE CountTo(flags, k - 1) + (IF flags[k] THEN 1 ELSE 0)

RocNotCalled ==
    [value |-> "none", P |-> 0, N |-> 0, TP |-> 0, FP |-> 0, FN |-> 0, TN |-> 0,
     TPF |-> <<0, 0>>, FPF |-> <<0, 0>>, FNF |-> <<0, 0>>, TNF |-> <<0, 0>>,
     DLRP |-> <<0, 0>>, DLRN |-> <<0, 0>>, tau |-> <<0, 0>>, rho |-> <<0, 0>>,
     PPV |-> <<0, 0>>, NPV |-> <<0, 0>>, printed |-> <<>>]

\* roc(x, y, th) for x and y of one length
RocBody(x, y, th) ==
    LET IsP == [i \in 1..Len(y) |-> y[i] >= th]
        IsN == [i \in 1..Len(y) |-> y[i] < th]
        IsTP == [i \in 1..Len(x) |-> x[i] >= th /\ y[i] > 0]
        IsFP == [i \in 1..Len(x) |-> x[i] >= th /\ y[i] < 0]
        P == CountTo(IsP, Len(y))
        N == CountTo(IsN, Len(y))
        TP == CountTo(IsTP, Len(x))
        FP == CountTo(IsFP, Len(x))
        FN == P - TP
        TN == N - FP
        TPF == <<TP, TP + FN>>
        FPF == <<FP, N>>
        FNF == <<TPF[2] - TPF[1], TPF[2]>>
        TNF == <<TN, TN + FP>>
        tau == <<TP + FP, P + N>>
        rho == <<TP + FN, P + N>>
        PPV == <<TP, TP + FP>>
        NPV == <<TN, TN + FN>>
        DLRP == RDiv(TPF, FPF)
        DLRN == RDiv(FNF, TNF)
    IN  [value |-> "None", P |-> P, N |-> N, TP |-> TP, FP |-> FP, FN |-> FN,
         TN |-> TN, TPF |-> TPF, FPF |-> FPF, FNF |-> FNF, TNF |-> TNF,
         DLRP |-> DLRP, DLRN |-> DLRN, tau |-> tau, rho |-> rho,
         PPV |-> PPV, NPV |-> NPV,
         \* the values of the print statements, in order; line 234 formats
         \* argument 0 twice
         printed |-> <<th, FPF, TPF, tau, PPV, PPV, rho, DLRP, DLRN>>]

RocInit ==
    /\ \E k \in 0..MaxRocLen :
           /\ roc_x \in [1..k -> -MaxRocVal..MaxRocVal]
           /\ roc_y \in [1..k -> -MaxRocVal..MaxRocVal]
    /\ theta \in -MaxRocVal..MaxRocVal
    /\ roc_pc = "start"
    /\ roc_out = RocNotCalled

RocCall ==
    /\ roc_pc = "start"
    /\ roc_out' = RocBody(roc_x, roc_y, theta)
    /\ roc_pc' = "done"
    /\ UNCHANGED <<roc_x, roc_y, theta>>
    /\ UNCHANGED <<gcd_vars, sig_vars, lift_vars, ks_vars>>

RocNext == RocCall

\* --------------------------------------------------------- specifications
\* The functions share no state: each is exercised by a caller of its own,
\* the other callers making no call.
GcdIdle ==
    /\ a0 = 0 /\ b0 = 0 /\ a = 0 /\ b = 0
    /\ gcd_pc = "idle" /\ gcd_ret = -1
SigIdle ==
    /\ sig_x = 0 /\ sig_prev_x = 0
    /\ sig_ret = [nan |-> FALSE, v |-> 0]
    /\ sig_prev_ret = [nan |-> FALSE, v |-> 0]
LiftIdle ==
    /\ lift_x = <<>> /\ lift_y = <<>>
    /\ buy_threshold = 0 /\ sell_threshold = 0
    /\ lift_pc = "idle" /\ lift_out = NotCalled /\ lift_prev = NotCalled
KsIdle ==
    /\ ks_x = <<>> /\ ks_y = <<>>
    /\ ks_pc = "idle" /\ ks_out = KsNotCalled
RocIdle ==
    /\ roc_x = <<>> /\ roc_y = <<>> /\ theta = 0
    /\ roc_pc = "idle" /\ roc_out = RocNotCalled

InitGcd == GcdInit /\ SigIdle /\ LiftIdle /\ KsIdle /\ RocIdle
InitSignif == GcdIdle /\ SigInit /\ LiftIdle /\ KsIdle /\ RocIdle
InitLift == GcdIdle /\ SigIdle /\ LiftInit /\ KsIdle /\ RocIdle
InitKs == GcdIdle /\ SigIdle /\ LiftIdle /\ KsInit /\ RocIdle
InitRoc == GcdIdle /\ SigIdle /\ LiftIdle /\ KsIdle /\ RocInit

\* gcd runs to its return: the loop is not interrupted
SpecGcd == InitGcd /\ [][GcdNext]_vars /\ WF_vars(GcdNext)
SpecSignif == InitSignif /\ [][SigNext]_vars
SpecLift == InitLift /\ [][LiftNext]_vars
SpecKs == InitKs /\ [][KsNext]_vars
SpecRoc == InitRoc /\ [][RocNext]_vars

Init == InitGcd \/ InitSignif \/ InitLift \/ InitKs \/ InitRoc
Next == GcdNext \/ SigNext \/ LiftNext \/ KsNext \/ RocNext
Spec == Init /\ [][Next]_vars

\* ------------------------------------------------------------------ claims
Divides(g, v) == v % g = 0
IsGreatestCommonDivisor(g, u, v) ==
    /\ g > 0
    /\ Divides(g, u) /\ Divides(g, v)
    /\ \A h \in (g + 1)..Max(u, v) : ~(Divides(h, u) /\ Divides(h, v))

\* C1: for non-negative a, b, not both zero, gcd(a, b) returns (the loop is
\* left and the return reached), and the result divides a and b, no larger
\* integer divides both, it equals gcd(b, a), and gcd(a, 0) = a.
C1_GcdReturnsGreatestDivisor ==
    /\ [](gcd_pc = "done" /\ (a0 # 0 \/ b0 # 0) =>
            /\ IsGreatestCommonDivisor(gcd_ret, a0, b0)
            /\ gcd_ret = gcd(b0, a0)
            /\ (b0 = 0 => gcd_ret = a0))
    /\ <>(gcd_pc = "done")
C1_Witness ==
    /\ gcd_pc = "done"
    /\ a0 = 12 /\ b0 = 8 /\ gcd_ret = 4

\* C2: lift called with sequences of different lengths fails with an
\* InvalidInput error; it does not return.
C2_LiftMismatchRaisesInvalidInput ==
    (lift_pc = "once" /\ Len(lift_x) # Len(lift_y)) =>
        (lift_out.outcome = "raise" /\ lift_out.value = "InvalidInput")

\* C3: ks fails with an InvalidInput error whenever X or Y is empty; it
\* computes no ECDF and returns no statistic or significance.
C3_KsEmptyRaisesInvalidInput ==
    (ks_pc = "done" /\ (Len(ks_x) = 0 \/ Len(ks_y) = 0)) =>
        (ks_out.outcome = "raise" /\ ks_out.error = "InvalidInput")

\* C4: for a non-empty sample X, ks(X, X) has maximum ECDF difference 0, so J
\* and J* are 0, and the significance ks_signif gives for it is 0.
C4_KsIdenticalSamplesZero ==
    (ks_pc = "done" /\ Len(ks_x) > 0 /\ ks_y = ks_x) =>
        /\ ks_out.outcome = "return"
        /\ ks_out.J_max[1] = 0 /\ ks_out.J[1] = 0
        /\ ~ks_out.J_star.nan /\ ks_out.J_star.sgn = 0
        /\ ks_out.signif = [nan |-> FALSE, v |-> 0]
        /\ ks_out.text.statistic = [nan |-> FALSE, v |-> 0]
        /\ ks_out.text.significance = [nan |-> FALSE, v |-> 0]
C4_Witness ==
    /\ ks_pc = "done" /\ ks_y = ks_x /\ Len(ks_x) = MaxSample
    /\ \E i, j \in 1..Len(ks_x) : ks_x[i] # ks_x[j]

AllAbove(targets, thr) == \A i \in 1..Len(targets) : targets[i] > thr

\* C5: when every target is above buy_threshold, the buy-side raw lift is
\* exactly 1.0 at every reported row and the buy mean lift is 1.0.
C5_RawLiftOneWhenAllHit ==
    (lift_pc = "once" /\ lift_out.value = "None"
        /\ AllAbove(lift_y, buy_threshold)) =>
        /\ \A k \in 1..Len(lift_out.buy_rows) : IsOne(lift_out.buy_rows[k].raw)
        /\ IsOne(lift_out.meanLiftBuy)

\* a quotient with a non-zero denominator lies in [0, 1]
InUnit(u) ==
    IF u[2] > 0 THEN 0 <= u[1] /\ u[1] <= u[2]
    ELSE u[2] <= u[1] /\ u[1] <= 0

\* C6: for equal-length x, y and any theta, TPF and FPF lie in [0, 1] whenever
\* their denominators TP + FN and N are non-zero.
C6_RocRatesInUnitInterval ==
    (roc_pc = "done" /\ roc_out.TPF[2] # 0 /\ roc_out.FPF[2] # 0) =>
        /\ InUnit(roc_out.TPF) /\ InUnit(roc_out.FPF)
        /\ roc_out.FN >= 0 /\ roc_out.TN >= 0

SameOrderAndCurves ==
    /\ lift_out.data = lift_prev.data
    /\ lift_out.lift_buy = lift_prev.lift_buy
    /\ lift_out.lift_sell = lift_prev.lift_sell
Descending(col) == \A i \in 1..(Len(col) - 1) : col[i] >= col[i + 1]
Distinct(col) == \A i, j \in 1..Len(col) : i # j => col[i] # col[j]

\* C7 as stated: the pairs lift has sorted, fed to lift again, come out in the
\* same order with the same buy and sell cumulative curves, ties included.
C7_ResortIdempotent ==
    lift_pc = "twice" => SameOrderAndCurves
\* C7 amended: that holds when the predictor values are pairwise distinct,
\* the pairs being in descending predictor order.
C7_ResortIdempotentWithoutTies ==
    (lift_pc = "twice" /\ Distinct(lift_x)) =>
        /\ SameOrderAndCurves
        /\ Descending(Col0(lift_prev.data))
C7_Witness ==
    /\ lift_pc = "twice" /\ Distinct(lift_x) /\ Len(lift_x) = MaxLen
    /\ Col0(lift_prev.data) # lift_x
    /\ lift_out.lift_buy[MaxLen] > 0 /\ lift_out.lift_sell[MaxLen] < 0

\* the rounding error allowed to a fixed-point sum: a thousandth
Tolerance == Scale \div 1000

\* C8 as stated: ks_signif is 0 for x <= 0, non-decreasing on x > 0, above
\* 0.999 at 3.0 and within [0, 1].
C8_SignifNonDecreasing ==
    /\ sig_x <= 0 => sig_ret.v = 0
    /\ (0 < sig_prev_x /\ sig_prev_x <= sig_x) => sig_prev_ret.v <= sig_ret.v
    /\ sig_x = 3 * Grid => sig_ret.v * 1000 > 999 * Scale
    /\ 0 <= sig_ret.v /\ sig_ret.v <= Scale + Tolerance
\* C8 amended: ks_signif is 0 for x <= 0, non-increasing on the x > 0 of the
\* grid, below 0.001 from 3.0 on and within [0, 1].
C8_SignifNonIncreasing ==
    /\ ~sig_ret.nan
    /\ sig_x <= 0 => sig_ret.v = 0
    /\ (0 < sig_prev_x /\ sig_prev_x <= sig_x) => sig_prev_ret.v >= sig_ret.v
    /\ sig_x >= 3 * Grid => sig_ret.v * 1000 < Scale
    /\ 0 <= sig_ret.v /\ sig_ret.v <= Scale + Tolerance
C8_Witness ==
    /\ sig_prev_x = 1 /\ sig_x = 3 * Grid
    /\ sig_prev_ret.v * 2 > Scale /\ sig_ret.v * 1000 < Scale

\* the j <= k with s[j] <= z, as a set
AtMost(s, z) == {j \in 1..Len(s) : s[j] <= z}
Separated(x, y) == \A i \in 1..Len(x) : \A j \in 1..Len(y) : x[i] < y[j]

\* C9: for non-empty X and Y, Z is the ascending pooled sample of length
\* m + n, F[i] and G[i] are the fractions of X and of Y that are <= Z[i], both
\* within [0, 1], nondecreasing in i and 1 at the last index; for X wholly
\* below Y the unscaled maximum |F[i] - G[i]| is 1.
C9_EcdfFractions ==
    (ks_pc = "done" /\ Len(ks_x) > 0 /\ Len(ks_y) > 0) =>
        LET m == Len(ks_x)
            n == Len(ks_y)
            Z == ks_out.Z
            F == ks_out.F
            G == ks_out.G
        IN  /\ Len(Z) = m + n /\ Len(F) = m + n /\ Len(G) = m + n
            /\ \A i \in 1..(m + n - 1) : Z[i] <= Z[i + 1]
            /\ \A i \in 1..(m + n) :
                   /\ F[i] = <<Cardinality(AtMost(ks_x, Z[i])), m>>
                   /\ G[i] = <<Cardinality(AtMost(ks_y, Z[i])), n>>
                   /\ InUnit(F[i]) /\ InUnit(G[i])
            /\ \A i \in 1..(m + n - 1) :
                   F[i][1] <= F[i + 1][1] /\ G[i][1] <= G[i + 1][1]
            /\ IsOne(F[m + n]) /\ IsOne(G[m + n])
            /\ Separated(ks_x, ks_y) => IsOne(ks_out.J_max)
C9_Witness ==
    /\ ks_pc = "done" /\ Len(ks_x) = MaxSample /\ Len(ks_y) = 2
    /\ Separated(ks_x, ks_y) /\ IsOne(ks_out.J_max)
    /\ IsOne(ks_out.F[1]) /\ ks_out.G[1][1] = 0

\* the pairs among the first k, in ascending predictor order, whose target is
\* below the sell threshold
SellHits(k) ==
    Cardinality({j \in 1..k : Reverse(Col1(lift_out.data))[j] < sell_threshold})
Ascending(col) == \A i \in 1..(Len(col) - 1) : col[i] <= col[i + 1]

\* C10 as stated: the sell curve at position k is the running count of sell
\* hits among the first k pairs in ascending predictor order, non-negative
\* and nondecreasing, and the sell mean lift is the final count over n.
C10_SellCurveIsRunningCount ==
    (lift_pc = "once" /\ lift_out.value = "None") =>
        LET n == Len(lift_x)
            sell == lift_out.lift_sell
        IN  /\ Ascending(Reverse(Col0(lift_out.data)))
            /\ \A k \in 1..n : sell[k] = SellHits(k) /\ sell[k] >= 0
            /\ \A k \in 1..(n - 1) : sell[k] <= sell[k + 1]
            /\ lift_out.meanLiftSell = <<SellHits(n), n>>
\* C10 amended: the sell curve is minus that running count, non-positive and
\* non-increasing, and the sell mean lift is minus the final count over n.
C10_SellCurveIsMinusRunningCount ==
    (lift_pc = "once" /\ lift_out.value = "None") =>
        LET n == Len(lift_x)
            sell == lift_out.lift_sell
        IN  /\ Ascending(Reverse(Col0(lift_out.data)))
            /\ \A k \in 1..n : sell[k] = -SellHits(k) /\ sell[k] <= 0
            /\ \A k \in 1..(n - 1) : sell[k] >= sell[k + 1]
            /\ lift_out.meanLiftSell = <<-SellHits(n), n>>
C10_Witness ==
    /\ lift_pc = "once" /\ lift_out.value = "None" /\ Len(lift_x) = MaxLen
    /\ lift_out.lift_sell[1] = 0 /\ lift_out.lift_sell[MaxLen] = -2
    /\ Col1(lift_out.data)[1] < sell_threshold
    /\ Distinct(lift_x)

====
